---------------------------- MODULE Spec2Model ----------------------------
(***************************************************************************)
(* declarative-scoop: reconciliation of a declared set of scoop buckets    *)
(* and apps against the installed ones (src/src/main.rs), driven through   *)
(* one long-lived PowerShell process (src/src/client.rs).                  *)
(*                                                                         *)
(* Spec         the run of main(): resolve, export, diff, confirm, execute. *)
(* ResolveSpec  get_required_things alone, over every manifest graph of    *)
(*              the three apps, with the fairness of a running loop.       *)
(* DiffSpec     the two diff functions on any InstalledThings and          *)
(*              RequiredThings, and the host after the plan is applied.    *)
(* DrainSpec    PowerShellClient::exec line by line: the host writing      *)
(*              through two bounded pipes, the two reader threads, the     *)
(*              joins and the EXIT_CODE parse.                             *)
(***************************************************************************)
EXTENDS Integers, Sequences, FiniteSets, TLC

(***************************************************************************)
(* Bounds of the model.                                                    *)
(***************************************************************************)
\* longest list of root apps in app-requirements.yaml, for the resolver alone
MaxRoots == 2
\* longest list of root apps in app-requirements.yaml, in a run of main()
MaxRunRoots == 1
\* longest list of buckets in app-requirements.yaml
MaxConfigBuckets == 2
\* longest list of buckets in the payload of `scoop export`
MaxExportBuckets == 1
\* most apps the host's buckets hold a manifest for, in a run of main()
MaxCatalog == 2
\* most dependencies of one key of a RequiredThings given to the diff
MaxDeps == 1
\* lines a pipe holds before a write to it blocks
PipeCap == 1
\* most lines one command prints on one stream
MaxLines == 2
\* exec calls on one client
MaxCalls == 2
\* most characters one command prints to stdout, when exec is taken
\* character by character
MaxText == 4
\* arguments of one exec call, and characters of one argument
MaxArgs == 2
MaxArgLen == 2
\* configured buckets, and apps the host has manifests for, in the runs
\* followed to their shutdown
MaxShutdownBuckets == 1
MaxShutdownCatalog == 1

(***************************************************************************)
(* Data model: ScoopApp and ScoopBucket.                                   *)
(***************************************************************************)
ScoopApp(bucket_name, name) ==
    [bucket_name |-> bucket_name, name |-> name]

ScoopBucket(name, source) ==
    [name |-> name, source |-> source]

\* The apps of the model: two apps of one bucket and an app of the same
\* name in another bucket.
Apps ==
    { ScoopApp("main", "git"), ScoopApp("main", "curl"), ScoopApp("extras", "git") }

\* The buckets of the model: two sources for one name, and another name.
Buckets ==
    { ScoopBucket("main", "official"), ScoopBucket("main", "mirror"),
      ScoopBucket("extras", "official") }

\* Display for ScoopApp: {bucket_name}/{name}
AppId(app) ==
    <<app.bucket_name, "/", app.name>>

SeqsUpTo(S, n) ==
    UNION { [1..k -> S] : k \in 0..n }

Range(s) ==
    { s[i] : i \in DOMAIN s }

\* Every order in which the elements of a HashSet can be iterated.
Orderings(S) ==
    { s \in [1..Cardinality(S) -> S] : Range(s) = S }

Configs(max_buckets, max_apps) ==
    [scoop_buckets : SeqsUpTo(Buckets, max_buckets), scoop_apps : SeqsUpTo(Apps, max_apps)]

(***************************************************************************)
(* State.                                                                  *)
(***************************************************************************)
VARIABLES
    config,        \* main: Config read from app-requirements.yaml
    pc,            \* main: the statement main() is at
    exit_kind,     \* main: how main() returned ("none" while it runs)
    stdin_log,     \* host: the commands written to the PowerShell stdin
    chan,          \* host: "Idle", or "Desynced" once an EXIT_CODE tag was missed
    catalog,       \* host: the apps its buckets hold a manifest for
    manifest,      \* host: what `scoop depends <app>` answers, per app
    to_resolve,    \* get_required_things: the VecDeque of apps to visit
    resolved,      \* get_required_things: HashMap app -> direct dependencies
    skipped,       \* get_required_things: apps logged "Skipping due to error"
    required,      \* main: RequiredThings
    installed,     \* main: InstalledThings
    to_uninstall,  \* main: ThingsToUninstall
    to_install,    \* main: ThingsToInstall
    buckets_left,  \* install_buckets: buckets the for loop has not reached
    host_alive,    \* PowerShell: the process has not exited
    host_script,   \* PowerShell: the lines it has yet to write, in order
    pipes,         \* the stdout and stderr pipes: the lines written and not read
    reader,        \* exec: the state of the two reader threads
    captured,      \* exec: `output` of the two reader threads
    exec_pc,       \* exec: the statement PowerShellClient::exec is at
    exec_result,   \* exec: what the last call returned
    calls,         \* exec: the calls made so far
    clean,         \* no command so far has printed a line that is the marker
    sent,          \* host: what the command of each call prints, and its exit code
    failures,      \* host: the commands, `depends` apart, that did not come
                   \* back with a zero status and a payload that parses
    error,         \* main: the Err it returns, NoError for Ok(())
    command_and_args,  \* exec: the argument list it is called with
    command_str,   \* exec: the arguments quoted and joined
    stdout_str,    \* exec: the text the stdout thread returned
    parsed,        \* exec: exit_code and the stdout of the ExecResult
    text_pc        \* exec, character by character: "idle", "called" or "done"

run_vars ==
    << config, pc, exit_kind, stdin_log, chan, catalog, manifest, to_resolve,
       resolved, skipped, required, installed, to_uninstall, to_install, buckets_left,
       failures, error >>

drain_vars ==
    << host_alive, host_script, pipes, reader, captured, exec_pc, exec_result,
       calls, clean, sent >>

text_vars ==
    << command_and_args, command_str, stdout_str, parsed, text_pc >>

vars ==
    << run_vars, drain_vars, text_vars >>

\* The empty HashMap.
EmptyMap ==
    [a \in {} |-> {}]

NoThings ==
    [scoop_buckets |-> {}, scoop_apps |-> {}]

NoRequired ==
    [scoop_buckets |-> <<>>, scoop_apps |-> EmptyMap]

NoInstalled ==
    [scoop_buckets |-> <<>>, scoop_apps |-> {}]

(***************************************************************************)
(* ScoopClient::exec as main() sees it: the command is written to the      *)
(* host's stdin and the call returns Ok(ExecResult) or Err.                *)
(***************************************************************************)
Command(op, targets) ==
    [op |-> op, targets |-> targets]

\* What one `scoop depends <app>` call can come back with: the rows of the
\* table, a non-zero status, the "Couldn't find manifest for" text, a row
\* that is not two tokens, or an Err of exec (no EXIT_CODE tag in stdout).
DepAnswer(kind, deps) ==
    [kind |-> kind, deps |-> deps]

\* An app of the catalog depends on apps of the catalog; an app outside it
\* has no manifest.
DepAnswers(app) ==
    IF app \in catalog
        THEN { DepAnswer("rows", d) : d \in SUBSET catalog }
                 \cup { DepAnswer(k, {}) : k \in {"nonzero", "badline"} }
        ELSE { DepAnswer("notfound", {}) }

\* What a call on a desynchronised channel can come back with: the pipes
\* hold the rest of an earlier command's output.
LeftoverAnswers ==
    { DepAnswer("rows", d) : d \in SUBSET catalog }
        \cup { DepAnswer(k, {}) : k \in {"nonzero", "notfound", "badline"} }

Unknown ==
    DepAnswer("unknown", {})

ExecErr ==
    DepAnswer("exec_err", {})

\* The host answers one app the same way every time; a desynchronised
\* channel hands back whatever is left in the pipes.
HostAnswers(app) ==
    IF chan = "Desynced"
        THEN LeftoverAnswers
        ELSE IF manifest[app] = Unknown THEN DepAnswers(app) ELSE {manifest[app]}

\* get_dependencies_of: Ok(set of apps) or Err.
get_dependencies_of(answer) ==
    IF answer.kind = "rows"
        THEN [ok |-> TRUE, deps |-> answer.deps]
        ELSE [ok |-> FALSE, deps |-> {}]

(***************************************************************************)
(* get_required_things: the closure of the root apps.                      *)
(***************************************************************************)
MapInsert(map, key, value) ==
    [k \in DOMAIN map \cup {key} |-> IF k = key THEN value ELSE map[k]]

\* A loop that looks at the front of the queue and leaves it there.
pop_front_peek(queue) ==
    queue

\* while let Some(app) = to_resolve.pop_front(): the queue after the pop.
pop_front(queue) ==
    Tail(queue)

\* A map that never says it has the key.
contains_key_never(map, key) ==
    FALSE

\* HashMap::contains_key
contains_key(map, key) ==
    key \in DOMAIN map

\* if resolved.contains_key(&app) { continue; }
ResolveVisited ==
    /\ pc = "resolve"
    /\ to_resolve # <<>>
    /\ contains_key(resolved, Head(to_resolve))
    /\ to_resolve' = pop_front(to_resolve)
    /\ UNCHANGED << config, pc, exit_kind, stdin_log, chan, catalog, manifest,
                    resolved, skipped, required, installed, to_uninstall, to_install,
                    buckets_left >>
    /\ UNCHANGED << failures, error >>
    /\ UNCHANGED << drain_vars, text_vars >>

\* A loop that records the dependencies and does not enqueue them.
OnDependencies_no_extend(app, rest, outcome, order) ==
    IF outcome.ok
        THEN [to_resolve |-> rest,
              resolved   |-> MapInsert(resolved, app, outcome.deps),
              skipped    |-> skipped]
        ELSE [to_resolve |-> rest,
              resolved   |-> resolved,
              skipped    |-> skipped \cup {app}]

\* A loop that leaves (break) on the first error instead of going on.
OnDependencies_break(app, rest, outcome, order) ==
    IF outcome.ok
        THEN [to_resolve |-> rest \o order,
              resolved   |-> MapInsert(resolved, app, outcome.deps),
              skipped    |-> skipped]
        ELSE [to_resolve |-> <<>>,
              resolved   |-> resolved,
              skipped    |-> skipped \cup {app}]

\* A loop that replaces the queue by the dependencies instead of extending
\* it.
OnDependencies_replace(app, rest, outcome, order) ==
    IF outcome.ok
        THEN [to_resolve |-> order,
              resolved   |-> MapInsert(resolved, app, outcome.deps),
              skipped    |-> skipped]
        ELSE [to_resolve |-> rest,
              resolved   |-> resolved,
              skipped    |-> skipped \cup {app}]

\* What the loop does with the outcome of get_dependencies_of(app): the
\* queue, the map and the log of skipped apps after it.
OnDependencies(app, rest, outcome, order) ==
    IF outcome.ok
        THEN [to_resolve |-> rest \o order,
              resolved   |-> MapInsert(resolved, app, outcome.deps),
              skipped    |-> skipped]
        ELSE [to_resolve |-> rest,
              resolved   |-> resolved,
              skipped    |-> skipped \cup {app}]

\* The loop body for an app that is not a key: one `scoop depends` call.
ResolveQuery ==
    /\ pc = "resolve"
    /\ to_resolve # <<>>
    /\ ~contains_key(resolved, Head(to_resolve))
    /\ LET app == Head(to_resolve)
       IN  /\ stdin_log' = Append(stdin_log, Command("depends", {app}))
           /\ \E answer \in HostAnswers(app) \cup {ExecErr} :
                /\ chan' = IF answer = ExecErr THEN "Desynced" ELSE chan
                /\ manifest' =
                      IF answer = ExecErr
                          THEN [a \in Apps |-> Unknown]
                          ELSE IF chan = "Idle"
                                   THEN [manifest EXCEPT ![app] = answer]
                                   ELSE manifest
                /\ \E order \in Orderings(get_dependencies_of(answer).deps) :
                     LET after == OnDependencies(app, pop_front(to_resolve),
                                                 get_dependencies_of(answer), order)
                     IN  /\ to_resolve' = after.to_resolve
                         /\ resolved' = after.resolved
                         /\ skipped' = after.skipped
    /\ UNCHANGED << config, pc, exit_kind, catalog, required, installed,
                    to_uninstall, to_install, buckets_left >>
    /\ UNCHANGED << failures, error >>
    /\ UNCHANGED << drain_vars, text_vars >>

\* The queue is empty: Ok(RequiredThings { config.scoop_buckets, resolved }).
ResolveReturn ==
    /\ pc = "resolve"
    /\ to_resolve = <<>>
    /\ required' = [scoop_buckets |-> config.scoop_buckets, scoop_apps |-> resolved]
    /\ pc' = "get_installed"
    /\ UNCHANGED << config, exit_kind, stdin_log, chan, catalog, manifest,
                    to_resolve, resolved, skipped, installed, to_uninstall,
                    to_install, buckets_left >>
    /\ UNCHANGED << failures, error >>
    /\ UNCHANGED << drain_vars, text_vars >>



(***************************************************************************)
(* get_installed_things: one `scoop export` call and its JSON payload.     *)
(***************************************************************************)
None ==
    "None"

ExportedScoopApp(name, bucket) ==
    [Name |-> name, Source |-> bucket]

\* The apps an export can list: every app of the model with its bucket as
\* Source, and an app installed from no bucket (no Source).
ExportedApps ==
    { ExportedScoopApp(a.name, a.bucket_name) : a \in Apps }
        \cup { ExportedScoopApp("local", None) }

ExportedScoopData ==
    [buckets : SeqsUpTo(Buckets, MaxExportBuckets), apps : SUBSET ExportedApps]

\* Ok(InstalledThings { .. }): the buckets as listed; the apps that have a
\* Source (filter_map), collected into a HashSet.
InstalledThings(data) ==
    [scoop_buckets |-> data.buckets,
     scoop_apps    |-> { ScoopApp(e.Source, e.Name) : e \in { x \in data.apps : x.Source # None } }]

\* What a command that is not a query can come back with: a zero status, a
\* non-zero status, or an Err of exec.
ExecOutcomes ==
    {"ok", "nonzero", "exec_err"}

\* An Err leaving the process at once, the client never dropped.
Return_abort(kind) ==
    /\ exit_kind' = kind
    /\ pc' = IF kind \in {"up_to_date", "cancelled", "completed"}
                 THEN "return" ELSE "dropped"

\* main() returns: one of its three Ok(()) returns ("up_to_date",
\* "cancelled", "completed"), or `?` on the Err of a step ("err_..").  The
\* client is dropped next.
Return(kind) ==
    /\ exit_kind' = kind
    /\ pc' = "return"

\* An export that failed taken for an export that lists nothing.
GetInstalled_lenient ==
    /\ pc = "get_installed"
    /\ stdin_log' = Append(stdin_log, Command("export", {}))
    /\ \E outcome \in ExecOutcomes \cup {"bad_json"} :
          /\ chan' = IF outcome = "exec_err" THEN "Desynced" ELSE chan
          /\ failures' = IF outcome = "ok" THEN failures
                                           ELSE failures \cup {Len(stdin_log) + 1}
          /\ IF outcome = "ok"
                THEN \E data \in ExportedScoopData :
                         installed' = InstalledThings(data)
                ELSE UNCHANGED installed
          /\ pc' = "diff"
          /\ UNCHANGED exit_kind
    /\ UNCHANGED << config, catalog, manifest, to_resolve, resolved, skipped,
                    required, to_uninstall, to_install, buckets_left >>
    /\ UNCHANGED error
    /\ UNCHANGED << drain_vars, text_vars >>

GetInstalled ==
    /\ pc = "get_installed"
    /\ stdin_log' = Append(stdin_log, Command("export", {}))
    /\ \E outcome \in ExecOutcomes \cup {"bad_json"} :
          /\ chan' = IF outcome = "exec_err" THEN "Desynced" ELSE chan
          /\ failures' = IF outcome = "ok" THEN failures
                                           ELSE failures \cup {Len(stdin_log) + 1}
          /\ IF outcome = "ok"
                THEN /\ \E data \in ExportedScoopData :
                           installed' = InstalledThings(data)
                     /\ pc' = "diff"
                     /\ UNCHANGED exit_kind
                ELSE /\ Return("err_export")
                     /\ UNCHANGED installed
    /\ UNCHANGED << config, catalog, manifest, to_resolve, resolved, skipped,
                    required, to_uninstall, to_install, buckets_left >>
    /\ UNCHANGED error
    /\ UNCHANGED << drain_vars, text_vars >>

(***************************************************************************)
(* compute_things_to_uninstall, compute_things_to_install, is_empty.       *)
(***************************************************************************)
\* Vec::contains: some element equals the item (derived PartialEq: every
\* field).
VecContains(vec, item) ==
    \E i \in DOMAIN vec : vec[i] = item

\* for item in vec { if !other.contains(item) { set.insert(item) } }
RECURSIVE InsertAbsent(_, _, _)
InsertAbsent(vec, other, set) ==
    IF vec = <<>>
        THEN set
        ELSE InsertAbsent(Tail(vec), other,
                          IF VecContains(other, Head(vec))
                              THEN set
                              ELSE set \cup {Head(vec)})

\* A diff that spares an installed app some key depends on.
compute_things_to_uninstall_spare_deps(installed_things, required_things) ==
    [scoop_buckets |->
        InsertAbsent(installed_things.scoop_buckets, required_things.scoop_buckets, {}),
     scoop_apps |->
        { app \in installed_things.scoop_apps :
            /\ app \notin DOMAIN required_things.scoop_apps
            /\ \A p \in DOMAIN required_things.scoop_apps :
                  app \notin required_things.scoop_apps[p] }]

\* A diff that keeps only the installed apps some key depends on.
compute_things_to_uninstall_values(installed_things, required_things) ==
    [scoop_buckets |->
        InsertAbsent(installed_things.scoop_buckets, required_things.scoop_buckets, {}),
     scoop_apps |->
        { app \in installed_things.scoop_apps :
            \A p \in DOMAIN required_things.scoop_apps :
                app \notin required_things.scoop_apps[p] }]

compute_things_to_uninstall(installed_things, required_things) ==
    [scoop_buckets |->
        InsertAbsent(installed_things.scoop_buckets, required_things.scoop_buckets, {}),
     scoop_apps |->
        { app \in installed_things.scoop_apps :
            app \notin DOMAIN required_things.scoop_apps }]

\* A diff that takes a bucket for installed when one of its name is.
compute_things_to_install_by_name(installed_things, required_things) ==
    [scoop_buckets |->
        { b \in Range(required_things.scoop_buckets) :
            \A i \in DOMAIN installed_things.scoop_buckets :
                installed_things.scoop_buckets[i].name # b.name },
     scoop_apps |->
        { app \in DOMAIN required_things.scoop_apps :
            app \notin installed_things.scoop_apps }]

\* A diff that adds every required bucket, installed or not.
compute_things_to_install_every_bucket(installed_things, required_things) ==
    [scoop_buckets |-> Range(required_things.scoop_buckets),
     scoop_apps |->
        { app \in DOMAIN required_things.scoop_apps :
            app \notin installed_things.scoop_apps }]

\* A diff that installs every key, installed or not.
compute_things_to_install_every_key(installed_things, required_things) ==
    [scoop_buckets |->
        InsertAbsent(required_things.scoop_buckets, installed_things.scoop_buckets, {}),
     scoop_apps |-> DOMAIN required_things.scoop_apps]

compute_things_to_install(installed_things, required_things) ==
    [scoop_buckets |->
        InsertAbsent(required_things.scoop_buckets, installed_things.scoop_buckets, {}),
     scoop_apps |->
        { app \in DOMAIN required_things.scoop_apps :
            app \notin installed_things.scoop_apps }]

\* ThingsToUninstall::is_empty, ThingsToInstall::is_empty
is_empty(things) ==
    things.scoop_apps = {} /\ things.scoop_buckets = {}

\* main, lines 85-92: both plans, then "Everything is up to date!" when both
\* are empty.
Diff ==
    /\ pc = "diff"
    /\ to_uninstall' = compute_things_to_uninstall(installed, required)
    /\ to_install' = compute_things_to_install(installed, required)
    /\ IF is_empty(to_uninstall') /\ is_empty(to_install')
          THEN Return("up_to_date")
          ELSE pc' = "confirm" /\ UNCHANGED exit_kind
    /\ UNCHANGED << config, stdin_log, chan, catalog, manifest, to_resolve,
                    resolved, skipped, required, installed, buckets_left >>
    /\ UNCHANGED << failures, error >>
    /\ UNCHANGED << drain_vars, text_vars >>

(***************************************************************************)
(* main, lines 94-106: the plan is described and the user is asked.        *)
(***************************************************************************)
\* What read_line can give: a line, or an error.
Inputs ==
    {"y", "Y", "yes", "YES", "n", "", "read_err"}

\* str::to_lowercase on the lines of the model
to_lowercase(input) ==
    CASE input = "Y" -> "y"
      [] input = "YES" -> "yes"
      [] OTHER -> input

\* matches!(input.trim().to_lowercase().as_str(), "y" | "yes" | "Y")
Accepts(input) ==
    to_lowercase(input) \in {"y", "yes", "Y"}

Confirm ==
    /\ pc = "confirm"
    /\ \E input \in Inputs :
          IF input = "read_err"
              THEN Return("err_confirm")
              ELSE IF Accepts(input)
                       THEN pc' = "uninstall" /\ UNCHANGED exit_kind
                       ELSE Return("cancelled")
    /\ UNCHANGED << config, stdin_log, chan, catalog, manifest, to_resolve,
                    resolved, skipped, required, installed, to_uninstall,
                    to_install, buckets_left >>
    /\ UNCHANGED << failures, error >>
    /\ UNCHANGED << drain_vars, text_vars >>

(***************************************************************************)
(* main, lines 108-122: the plan is executed.                              *)
(***************************************************************************)
\* client.exec(args): the command is written, and the call comes back.
Exec(command, outcome) ==
    /\ stdin_log' = Append(stdin_log, command)
    /\ chan' = IF outcome = "exec_err" THEN "Desynced" ELSE chan
    /\ failures' = IF outcome = "ok" THEN failures
                                     ELSE failures \cup {Len(stdin_log) + 1}

\* output.stderr.trim() of the ExecResult of a command.
StderrOf(command) ==
    << "stderr", command >>

\* The Err of client.exec: the write to stdin failed, or no EXIT_CODE tag
\* was found in stdout.
ExecFailure(command) ==
    << "exec", command >>

NoError ==
    [step |-> "none", carries |-> << >>]

\* What the Err of a step is made of: bail!("failed to ..: {}",
\* output.stderr.trim()) on a non-zero status, the Err of exec under
\* wrap_err("failed to ..") otherwise.
Failure(command, outcome, step) ==
    [step    |-> step,
     carries |-> IF outcome = "nonzero" THEN StderrOf(command)
                                        ELSE ExecFailure(command)]

\* Every step ignoring the status and the Err of its command.
Continue_ignore(command, outcome, next_pc, step) ==
    /\ pc' = next_pc
    /\ UNCHANGED << exit_kind, error >>

\* Every step reporting what the command printed to stdout.
Continue_stdout(command, outcome, next_pc, step) ==
    IF outcome = "ok"
        THEN pc' = next_pc /\ UNCHANGED << exit_kind, error >>
        ELSE Return(step) /\ error' = [step |-> step, carries |-> << "stdout", command >>]

\* `?` after exec and the bail! on a non-zero status: the error names the
\* step that failed.
Continue(command, outcome, next_pc, step) ==
    IF outcome = "ok"
        THEN pc' = next_pc /\ UNCHANGED << exit_kind, error >>
        ELSE Return(step) /\ error' = Failure(command, outcome, step)

\* if !to_uninstall.is_empty() { uninstall_apps(..)?; .. }: uninstall_apps
\* returns early on an empty list of ids.
UninstallApps ==
    /\ pc = "uninstall"
    /\ IF is_empty(to_uninstall)
          THEN /\ pc' = "install"
               /\ UNCHANGED << exit_kind, stdin_log, chan, failures, error >>
          ELSE IF to_uninstall.scoop_apps = {}
                   THEN /\ pc' = "uninstall_buckets"
                        /\ UNCHANGED << exit_kind, stdin_log, chan, failures, error >>
                   ELSE \E outcome \in ExecOutcomes :
                            LET command == Command("uninstall", to_uninstall.scoop_apps)
                            IN  /\ Exec(command, outcome)
                                /\ Continue(command, outcome, "uninstall_buckets",
                                            "err_uninstall_apps")
    /\ UNCHANGED << config, catalog, manifest, to_resolve, resolved, skipped,
                    required, installed, to_uninstall, to_install, buckets_left >>
    /\ UNCHANGED << drain_vars, text_vars >>

\* uninstall_buckets: returns early on an empty list of names.
UninstallBuckets ==
    /\ pc = "uninstall_buckets"
    /\ IF to_uninstall.scoop_buckets = {}
          THEN /\ pc' = "install"
               /\ UNCHANGED << exit_kind, stdin_log, chan, failures, error >>
          ELSE \E outcome \in ExecOutcomes :
                   LET command == Command("bucket rm",
                                          { b.name : b \in to_uninstall.scoop_buckets })
                   IN  /\ Exec(command, outcome)
                       /\ Continue(command, outcome, "install", "err_uninstall_buckets")
    /\ UNCHANGED << config, catalog, manifest, to_resolve, resolved, skipped,
                    required, installed, to_uninstall, to_install, buckets_left >>
    /\ UNCHANGED << drain_vars, text_vars >>

\* if !to_install.is_empty() { install_buckets(..)?; .. }, else the run is
\* complete.
BeginInstall ==
    /\ pc = "install"
    /\ IF is_empty(to_install)
          THEN /\ Return("completed")
               /\ UNCHANGED buckets_left
          ELSE /\ pc' = "install_buckets"
               /\ buckets_left' = to_install.scoop_buckets
               /\ UNCHANGED exit_kind
    /\ UNCHANGED << config, stdin_log, chan, catalog, manifest, to_resolve,
                    resolved, skipped, required, installed, to_uninstall,
                    to_install >>
    /\ UNCHANGED << failures, error >>
    /\ UNCHANGED << drain_vars, text_vars >>

\* install_buckets: one `bucket add <name> <source>` per bucket of the set.
InstallBucket ==
    /\ pc = "install_buckets"
    /\ \E bucket \in buckets_left :
          /\ buckets_left' = buckets_left \ {bucket}
          /\ \E outcome \in ExecOutcomes :
                LET command == Command("bucket add", {bucket})
                IN  /\ Exec(command, outcome)
                    /\ Continue(command, outcome, "install_buckets",
                                "err_install_buckets")
    /\ UNCHANGED << config, catalog, manifest, to_resolve, resolved, skipped,
                    required, installed, to_uninstall, to_install >>
    /\ UNCHANGED << drain_vars, text_vars >>

\* install_buckets: the for loop is over.
InstallBucketsDone ==
    /\ pc = "install_buckets"
    /\ buckets_left = {}
    /\ pc' = "install_apps"
    /\ UNCHANGED << config, exit_kind, stdin_log, chan, catalog, manifest,
                    to_resolve, resolved, skipped, required, installed,
                    to_uninstall, to_install, buckets_left >>
    /\ UNCHANGED << failures, error >>
    /\ UNCHANGED << drain_vars, text_vars >>

\* install_apps: `install` and the ids of the apps, whatever their number;
\* then main prints "Operation completed successfully!" and returns Ok(()).
InstallApps ==
    /\ pc = "install_apps"
    /\ \E outcome \in ExecOutcomes :
          LET command == Command("install", to_install.scoop_apps)
          IN  /\ Exec(command, outcome)
              /\ IF outcome = "ok"
                    THEN Return("completed") /\ UNCHANGED error
                    ELSE /\ Return("err_install_apps")
                         /\ error' = Failure(command, outcome, "err_install_apps")
    /\ UNCHANGED << config, catalog, manifest, to_resolve, resolved, skipped,
                    required, installed, to_uninstall, to_install, buckets_left >>
    /\ UNCHANGED << drain_vars, text_vars >>

(***************************************************************************)
(* Drop for PowerShellClient: "exit" is written, then process.wait().      *)
(***************************************************************************)
\* main() has returned and `client` goes out of scope: write_all(b"exit\n")
\* and flush, their Err ignored; the wait comes next.
Drop ==
    /\ pc = "return"
    /\ stdin_log' = Append(stdin_log, Command("exit", {}))
    /\ pc' = "waiting"
    /\ UNCHANGED << config, exit_kind, chan, catalog, manifest, to_resolve,
                    resolved, skipped, required, installed, to_uninstall,
                    to_install, buckets_left >>
    /\ UNCHANGED << failures, error >>
    /\ UNCHANGED << drain_vars, text_vars >>

\* The host reads "exit" and exits.  Nothing makes it: a host that is hung,
\* or blocked on a write to a pipe nobody reads, never takes this step.
HostExit ==
    /\ pc = "waiting"
    /\ host_alive
    /\ host_alive' = FALSE
    /\ UNCHANGED << host_script, pipes, reader, captured, exec_pc, exec_result,
                    calls, clean, sent >>
    /\ UNCHANGED << run_vars, text_vars >>

\* process.wait() returns once the process has exited, and only then;
\* "PowerShell process terminated." is printed.
Wait ==
    /\ pc = "waiting"
    /\ ~host_alive
    /\ pc' = "dropped"
    /\ UNCHANGED << config, exit_kind, stdin_log, chan, catalog, manifest,
                    to_resolve, resolved, skipped, required, installed,
                    to_uninstall, to_install, buckets_left >>
    /\ UNCHANGED << failures, error >>
    /\ UNCHANGED << drain_vars, text_vars >>

(***************************************************************************)
(* PowerShellClient::exec, line by line.  The host writes the output of    *)
(* the command, then "EXIT_CODE:<n>" and the END_MARKER to stdout, then    *)
(* the END_MARKER to stderr; a write to a full pipe blocks.  Lines are     *)
(* valid UTF-8: new() sets the output encoding before any command.         *)
(***************************************************************************)
Streams ==
    {"out", "err"}

\* A line: "text" a command prints, a line a command prints that trims to
\* the END_MARKER ("marker"), and the two lines of the framing: "tag"
\* (EXIT_CODE:<code>) and "end" (the END_MARKER).  cmd is the call whose
\* command wrote it.
Line(kind, cmd, code) ==
    [kind |-> kind, cmd |-> cmd, code |-> code]

Write(stream, line) ==
    [stream |-> stream, line |-> line]

ExitCodes ==
    {0, 1}

\* line.trim() == END_MARKER
IsEndMarker(line) ==
    line.kind \in {"marker", "end"}

\* Every way two sequences of writes can follow one another in one program.
RECURSIVE Interleavings(_, _)
Interleavings(a, b) ==
    IF a = <<>> THEN {b}
    ELSE IF b = <<>> THEN {a}
    ELSE { <<Head(a)>> \o r : r \in Interleavings(Tail(a), b) }
             \cup { <<Head(b)>> \o r : r \in Interleavings(a, Tail(b)) }

\* What the command of call `cmd` can print.
Outputs(cmd) ==
    UNION { Interleavings([i \in DOMAIN o |-> Write("out", Line(o[i], cmd, 0))],
                          [i \in DOMAIN e |-> Write("err", Line(e[i], cmd, 0))]) :
              o \in SeqsUpTo({"text", "marker"}, MaxLines),
              e \in SeqsUpTo({"text", "marker"}, MaxLines) }

\* full_command after the command itself: the exit code and the two markers.
Framing(cmd, code) ==
    << Write("out", Line("tag", cmd, code)),
       Write("out", Line("end", cmd, 0)),
       Write("err", Line("end", cmd, 0)) >>

\* What a command prints, stream by stream, and the status it exits with.
OnStream(output, stream) ==
    LET writes == SelectSeq(output, LAMBDA w : w.stream = stream)
    IN  [i \in DOMAIN writes |-> writes[i].line]

Sent(output, code) ==
    [out |-> OnStream(output, "out"), err |-> OnStream(output, "err"), code |-> code]

NoResult ==
    [ok |-> FALSE, stdout |-> <<>>, stderr |-> <<>>, status |-> 0, call |-> 0]

DrainStart ==
    /\ host_alive = TRUE
    /\ host_script = <<>>
    /\ pipes = [s \in Streams |-> <<>>]
    /\ reader = [s \in Streams |-> "none"]
    /\ captured = [s \in Streams |-> <<>>]
    /\ exec_pc = "idle"
    /\ exec_result = NoResult
    /\ calls = 0
    /\ clean = TRUE
    /\ sent = << >>

\* stdin.write_all(full_command) and flush: an Err when the host is gone,
\* else the host has the command and will run it after what it has yet to
\* write.
ExecWrite ==
    /\ exec_pc = "idle"
    /\ calls < MaxCalls
    /\ calls' = calls + 1
    /\ IF host_alive
          THEN /\ \E output \in Outputs(calls + 1), code \in ExitCodes :
                     /\ host_script' = host_script \o output \o Framing(calls + 1, code)
                     /\ clean' = (clean /\ \A i \in DOMAIN output :
                                               output[i].line.kind # "marker")
                     /\ sent' = Append(sent, Sent(output, code))
               /\ exec_pc' = "spawn_out"
               /\ UNCHANGED exec_result
          ELSE /\ exec_result' = [NoResult EXCEPT !.call = calls + 1]
               /\ sent' = Append(sent, Sent(<< >>, 0))
               /\ UNCHANGED << host_script, clean, exec_pc >>
    /\ UNCHANGED << host_alive, pipes, reader, captured >>
    /\ UNCHANGED << run_vars, text_vars >>

\* The host writes its next line, when the pipe has room for it.
HostWrite ==
    /\ host_alive
    /\ host_script # <<>>
    /\ LET w == Head(host_script)
       IN  /\ Len(pipes[w.stream]) < PipeCap
           /\ pipes' = [pipes EXCEPT ![w.stream] = Append(@, w.line)]
    /\ host_script' = Tail(host_script)
    /\ UNCHANGED << host_alive, reader, captured, exec_pc, exec_result, calls, clean >>
    /\ UNCHANGED sent
    /\ UNCHANGED << run_vars, text_vars >>

\* The host process exits: what it has written stays in the pipes, the rest
\* is never written.
HostDie ==
    /\ host_alive
    /\ host_alive' = FALSE
    /\ host_script' = <<>>
    /\ UNCHANGED << pipes, reader, captured, exec_pc, exec_result, calls, clean >>
    /\ UNCHANGED sent
    /\ UNCHANGED << run_vars, text_vars >>

\* The main thread taking the streams in turn: wait for the one reader
\* before the other is started.
after_sequential(at) ==
    CASE at = "spawn_out" -> "join_out"
      [] at = "join_out"  -> "spawn_err"
      [] at = "spawn_err" -> "join_err"
      [] at = "join_err"  -> "parse"

\* The order of the statements of exec after the write: both threads are
\* spawned, then both are joined.
after(at) ==
    CASE at = "spawn_out" -> "spawn_err"
      [] at = "spawn_err" -> "join_out"
      [] at = "join_out"  -> "join_err"
      [] at = "join_err"  -> "parse"

StreamAt(at) ==
    IF at \in {"spawn_out", "join_out"} THEN "out" ELSE "err"

\* The threads appending to what the threads of the call before returned.
Spawn_keep_output ==
    /\ exec_pc \in {"spawn_out", "spawn_err"}
    /\ reader' = [reader EXCEPT ![StreamAt(exec_pc)] = "running"]
    /\ exec_pc' = after(exec_pc)
    /\ UNCHANGED << host_alive, host_script, pipes, captured, exec_result, calls,
                    clean, sent >>
    /\ UNCHANGED << run_vars, text_vars >>

\* thread::spawn(make_handler(stdout)), thread::spawn(make_handler(stderr))
Spawn ==
    /\ exec_pc \in {"spawn_out", "spawn_err"}
    /\ reader' = [reader EXCEPT ![StreamAt(exec_pc)] = "running"]
    /\ captured' = [captured EXCEPT ![StreamAt(exec_pc)] = <<>>]
    /\ exec_pc' = after(exec_pc)
    /\ UNCHANGED << host_alive, host_script, pipes, exec_result, calls, clean >>
    /\ UNCHANGED sent
    /\ UNCHANGED << run_vars, text_vars >>

\* make_handler, read_line gave a line: the loop ends on the END_MARKER,
\* else the line is pushed.  into_inner() drops what the BufReader had read
\* ahead of the line it stopped at.
ReadLine(s) ==
    /\ reader[s] = "running"
    /\ pipes[s] # <<>>
    /\ IF IsEndMarker(Head(pipes[s]))
          THEN /\ reader' = [reader EXCEPT ![s] = "finished"]
               /\ \E dropped \in 0..Len(Tail(pipes[s])) :
                     pipes' = [pipes EXCEPT ![s] =
                                  SubSeq(Tail(@), dropped + 1, Len(Tail(@)))]
               /\ UNCHANGED captured
          ELSE /\ captured' = [captured EXCEPT ![s] = Append(@, Head(pipes[s]))]
               /\ pipes' = [pipes EXCEPT ![s] = Tail(@)]
               /\ UNCHANGED reader
    /\ UNCHANGED << host_alive, host_script, exec_pc, exec_result, calls, clean >>
    /\ UNCHANGED sent
    /\ UNCHANGED << run_vars, text_vars >>

\* make_handler, read_line gave len == 0: end of stream.
ReadEof(s) ==
    /\ reader[s] = "running"
    /\ pipes[s] = <<>>
    /\ ~host_alive
    /\ reader' = [reader EXCEPT ![s] = "finished"]
    /\ UNCHANGED << host_alive, host_script, pipes, captured, exec_pc,
                    exec_result, calls, clean >>
    /\ UNCHANGED sent
    /\ UNCHANGED << run_vars, text_vars >>

Read ==
    \E s \in Streams : ReadLine(s) \/ ReadEof(s)

\* stdout_thread.join(), stderr_thread.join(): the thread has returned.
Join ==
    /\ exec_pc \in {"join_out", "join_err"}
    /\ reader[StreamAt(exec_pc)] = "finished"
    /\ reader' = [reader EXCEPT ![StreamAt(exec_pc)] = "none"]
    /\ exec_pc' = after(exec_pc)
    /\ UNCHANGED << host_alive, host_script, pipes, captured, exec_result,
                    calls, clean >>
    /\ UNCHANGED sent
    /\ UNCHANGED << run_vars, text_vars >>

\* stdout_str.rfind("EXIT_CODE:"): the last line of the tag, 0 for None.
rfind_tag(lines) ==
    LET at == { i \in DOMAIN lines : lines[i].kind = "tag" }
    IN  IF at = {} THEN 0 ELSE CHOOSE i \in at : \A j \in at : j <= i

\* code_str.parse::<i32>().unwrap_or(-1): what follows the tag, to the end
\* of the captured text, is the number only when the tag line is the last.
parse_code(lines, pos) ==
    IF pos = Len(lines) THEN lines[pos].code ELSE -1

\* Lines 170-183: Err when the tag is not found, else Ok(ExecResult) with
\* stdout truncated at the tag.
Parse ==
    /\ exec_pc = "parse"
    /\ LET pos == rfind_tag(captured.out)
       IN  exec_result' =
               IF pos = 0
                   THEN [NoResult EXCEPT !.call = calls]
                   ELSE [ok     |-> TRUE,
                         stdout |-> SubSeq(captured.out, 1, pos - 1),
                         stderr |-> captured.err,
                         status |-> parse_code(captured.out, pos),
                         call   |-> calls]
    /\ exec_pc' = "idle"
    /\ UNCHANGED << host_alive, host_script, pipes, reader, captured, calls, clean >>
    /\ UNCHANGED sent
    /\ UNCHANGED << run_vars, text_vars >>

(***************************************************************************)
(* PowerShellClient::exec, lines 170-183, character by character: the      *)
(* text of stdout is a sequence of characters, the ten characters of       *)
(* "EXIT_CODE:" taken as one.                                              *)
(***************************************************************************)
TAG ==
    "EXIT_CODE:"

Digits ==
    {"0", "1"}

\* char::is_whitespace
Whitespace ==
    {"\n"}

\* What a command can print to stdout: text, digits, line ends, and the
\* text of the tag.
OutputChars ==
    {"x", "1", "\n", TAG}

\* [Console]::Out.WriteLine("EXIT_CODE:$exitCode")
TagLine(code) ==
    << TAG, IF code = 0 THEN "0" ELSE "1", "\n" >>

\* The first occurrence where the code takes the last (str::find).
find(text, pat) ==
    LET at == { i \in DOMAIN text : text[i] = pat }
    IN  IF at = {} THEN 0 ELSE CHOOSE i \in at : \A j \in at : i <= j

\* str::rfind(pat), the last occurrence: 0 for None.
rfind(text, pat) ==
    LET at == { i \in DOMAIN text : text[i] = pat }
    IN  IF at = {} THEN 0 ELSE CHOOSE i \in at : \A j \in at : j <= i

\* str::trim_end
RECURSIVE trim_end(_)
trim_end(text) ==
    IF text # << >> /\ text[Len(text)] \in Whitespace
        THEN trim_end(SubSeq(text, 1, Len(text) - 1))
        ELSE text

\* str::trim_start
RECURSIVE trim_start(_)
trim_start(text) ==
    IF text # << >> /\ Head(text) \in Whitespace
        THEN trim_start(Tail(text))
        ELSE text

\* str::trim
trim(text) ==
    trim_start(trim_end(text))

\* The number a string of digits writes.
RECURSIVE DigitsValue(_)
DigitsValue(text) ==
    IF text = << >> THEN 0
    ELSE 10 * DigitsValue(SubSeq(text, 1, Len(text) - 1))
            + (IF text[Len(text)] = "1" THEN 1 ELSE 0)

\* str::parse::<i32>().unwrap_or(-1): -1 unless the text is a number.
parse_i32(text) ==
    IF text # << >> /\ \A i \in DOMAIN text : text[i] \in Digits
        THEN DigitsValue(text)
        ELSE -1

\* String::truncate(pos): what is before the position.
truncate(text, pos) ==
    SubSeq(text, 1, pos - 1)

NoParse ==
    [ok |-> FALSE, stdout |-> << >>, exit_code |-> 0]

TextStart ==
    /\ command_and_args = << >>
    /\ command_str = << >>
    /\ stdout_str = << >>
    /\ parsed = NoParse
    /\ text_pc = "idle"

\* Lines 171-183: bail! when the tag is not in stdout_str, else the exit
\* code is what follows its last occurrence and stdout what precedes it.
ParseStdout ==
    /\ text_pc = "called"
    /\ text_pc' = "done"
    /\ LET pos == rfind(stdout_str, TAG)
       IN  parsed' =
               IF pos = 0
                   THEN NoParse
                   ELSE [ok        |-> TRUE,
                         stdout    |-> trim_end(truncate(stdout_str, pos)),
                         exit_code |-> parse_i32(trim(SubSeq(stdout_str, pos + 1,
                                                              Len(stdout_str))))]
    /\ UNCHANGED << command_and_args, command_str, stdout_str >>
    /\ UNCHANGED << run_vars, drain_vars >>

(***************************************************************************)
(* The specifications.                                                     *)
(***************************************************************************)
\* After ScoopClient::new(): the config is read, the queue is not seeded.
MainStart(configs, catalogs) ==
    /\ config \in configs
    /\ catalog \in catalogs
    /\ pc = "resolve"
    /\ exit_kind = "none"
    /\ stdin_log = <<>>
    /\ chan = "Idle"
    /\ manifest = [a \in Apps |-> Unknown]
    /\ to_resolve = config.scoop_apps
    /\ resolved = EmptyMap
    /\ skipped = {}
    /\ required = NoRequired
    /\ installed = NoInstalled
    /\ to_uninstall = NoThings
    /\ to_install = NoThings
    /\ buckets_left = {}
    /\ failures = {}
    /\ error = NoError
    /\ DrainStart

Start(configs, catalogs) ==
    /\ MainStart(configs, catalogs)
    /\ TextStart

Init ==
    Start(Configs(MaxConfigBuckets, MaxRunRoots),
          { c \in SUBSET Apps : Cardinality(c) <= MaxCatalog })

\* The steps of main() and of the drop of its client.
Main ==
    \/ ResolveVisited
    \/ ResolveQuery
    \/ ResolveReturn
    \/ GetInstalled
    \/ Diff
    \/ Confirm
    \/ UninstallApps
    \/ UninstallBuckets
    \/ BeginInstall
    \/ InstallBucket
    \/ InstallBucketsDone
    \/ InstallApps
    \/ Drop
    \/ Wait

Next ==
    \/ Main
    \/ HostExit

Spec ==
    Init /\ [][Next]_vars

\* A run from its start to the drop of the client, on a small config.  main
\* runs on while it can; nothing is assumed of the host.
ShutdownInit ==
    Start(Configs(MaxShutdownBuckets, MaxRunRoots),
          { c \in SUBSET Apps : Cardinality(c) <= MaxShutdownCatalog })

ShutdownSpec ==
    ShutdownInit /\ [][Next]_vars /\ WF_vars(Main)

\* get_required_things alone: no buckets, any catalog.
ResolveInit ==
    Start(Configs(0, MaxRoots), SUBSET Apps)

ResolveNext ==
    \/ ResolveVisited
    \/ ResolveQuery
    \/ ResolveReturn

\* The loop runs on while it can: nothing in it waits.
ResolveSpec ==
    ResolveInit /\ [][ResolveNext]_vars /\ WF_vars(ResolveNext)

(***************************************************************************)
(* The diff functions alone: any InstalledThings against any               *)
(* RequiredThings, then the host after every command of the plan has       *)
(* succeeded, as the next export would list it.                            *)
(***************************************************************************)
AnyRequiredThings ==
    [scoop_buckets : SeqsUpTo(Buckets, MaxConfigBuckets),
     scoop_apps : UNION { [keys -> { d \in SUBSET Apps : Cardinality(d) <= MaxDeps }] :
                            keys \in SUBSET Apps }]

AnyInstalledThings ==
    [scoop_buckets : SeqsUpTo(Buckets, MaxExportBuckets), scoop_apps : SUBSET Apps]

DiffInit ==
    /\ config = [scoop_buckets |-> <<>>, scoop_apps |-> <<>>]
    /\ catalog = {}
    /\ pc = "diff"
    /\ exit_kind = "none"
    /\ stdin_log = <<>>
    /\ chan = "Idle"
    /\ manifest = [a \in Apps |-> Unknown]
    /\ to_resolve = <<>>
    /\ resolved = EmptyMap
    /\ skipped = {}
    /\ required \in AnyRequiredThings
    /\ installed \in AnyInstalledThings
    /\ to_uninstall = NoThings
    /\ to_install = NoThings
    /\ buckets_left = {}
    /\ failures = {}
    /\ error = NoError
    /\ DrainStart
    /\ TextStart

\* `bucket rm` and `uninstall` of the one plan, `bucket add` and `install`
\* of the other, all exiting zero.
ApplyPlan ==
    /\ pc = "confirm"
    /\ \E added \in Orderings(to_install.scoop_buckets) :
          installed' =
              [scoop_buckets |->
                  SelectSeq(installed.scoop_buckets,
                            LAMBDA b : b \notin to_uninstall.scoop_buckets) \o added,
               scoop_apps |->
                  (installed.scoop_apps \ to_uninstall.scoop_apps)
                      \cup to_install.scoop_apps]
    /\ pc' = "applied"
    /\ UNCHANGED << config, exit_kind, stdin_log, chan, catalog, manifest,
                    to_resolve, resolved, skipped, required, to_uninstall,
                    to_install, buckets_left >>
    /\ UNCHANGED << failures, error >>
    /\ UNCHANGED << drain_vars, text_vars >>

DiffNext ==
    \/ Diff
    \/ ApplyPlan

DiffSpec ==
    DiffInit /\ [][DiffNext]_vars

\* exec alone, on a client that main() is not using.
DrainInit ==
    Start(Configs(0, 0), {{}})

\* What exec and its threads do once the command is written.
Drain ==
    \/ Spawn
    \/ Read
    \/ Join
    \/ Parse

DrainNext ==
    \/ ExecWrite
    \/ HostWrite
    \/ HostDie
    \/ Drain

\* The host runs while it is not blocked, and so do the threads of exec.
DrainSpec ==
    DrainInit /\ [][DrainNext]_vars /\ WF_vars(HostWrite) /\ WF_vars(Drain)

(***************************************************************************)
(* PowerShellClient::exec, lines 103-116: the arguments quoted and joined, *)
(* and the command line as the host reads it.                              *)
(***************************************************************************)
\* The characters of an argument: a letter, a space, and the two quotes.
ArgChars ==
    {"a", " ", "'", "\""}

\* str::contains(char)
contains(s, c) ==
    \E i \in DOMAIN s : s[i] = c

\* The closure `quote` of exec.
quote(s) ==
    IF contains(s, "\"")
        THEN << "'" >> \o s \o << "'" >>
        ELSE IF contains(s, " ") \/ contains(s, "'")
                 THEN << "\"" >> \o s \o << "\"" >>
                 ELSE s

\* Itertools::join(sep)
RECURSIVE join(_, _)
join(items, sep) ==
    IF items = << >> THEN << >>
    ELSE IF Len(items) = 1 THEN items[1]
    ELSE items[1] \o sep \o join(Tail(items), sep)

\* A string that is opened and not closed on the line.
Unterminated ==
    << "unterminated" >>

\* The arguments PowerShell reads from a command line.  Spaces separate
\* them; '..' is taken as it is and ".." likewise (no $ or backtick is in
\* ArgChars); a quote doubled inside a string of its kind is that quote;
\* a string joins the characters it touches.  `word` is the argument being
\* read, `open` whether there is one, `mode` the quote that is open.
RECURSIVE Scan(_, _, _, _, _)
Scan(rest, mode, word, open, args) ==
    IF rest = << >>
        THEN IF mode # "bare" THEN Unterminated
             ELSE IF open THEN Append(args, word) ELSE args
    ELSE LET c == Head(rest)
             doubled == Len(rest) >= 2 /\ rest[2] = c
         IN  IF mode = "bare"
                 THEN IF c = " "
                          THEN Scan(Tail(rest), "bare", << >>, FALSE,
                                    IF open THEN Append(args, word) ELSE args)
                      ELSE IF c \in {"'", "\""}
                          THEN Scan(Tail(rest), c, word, TRUE, args)
                      ELSE Scan(Tail(rest), "bare", Append(word, c), TRUE, args)
             ELSE IF c = mode
                 THEN IF doubled
                          THEN Scan(Tail(Tail(rest)), mode, Append(word, c), TRUE, args)
                          ELSE Scan(Tail(rest), "bare", word, TRUE, args)
             ELSE Scan(Tail(rest), mode, Append(word, c), TRUE, args)

Arguments(line) ==
    Scan(line, "bare", << >>, FALSE, << >>)

\* let command_str = command_and_args.iter().map(quote).join(" ");
Quote ==
    /\ text_pc = "called"
    /\ command_str' = join([i \in DOMAIN command_and_args |-> quote(command_and_args[i])],
                           << " " >>)
    /\ text_pc' = "quoted"
    /\ UNCHANGED << command_and_args, stdout_str, parsed >>
    /\ UNCHANGED << run_vars, drain_vars >>

\* exec called with any list of arguments.
QuoteInit ==
    /\ MainStart(Configs(0, 0), {{}})
    /\ command_and_args \in SeqsUpTo(SeqsUpTo(ArgChars, MaxArgLen), MaxArgs)
    /\ command_str = << >>
    /\ stdout_str = << >>
    /\ parsed = NoParse
    /\ text_pc = "called"

QuoteNext ==
    Quote

QuoteSpec ==
    QuoteInit /\ [][QuoteNext]_vars

(***************************************************************************)
(* Lines 170-183 of exec alone, on any text the stdout thread can return:  *)
(* what a command printed, then the line of the tag unless the stream      *)
(* ended before it.                                                        *)
(***************************************************************************)
CapturedTexts ==
    { output \o trailer : output \in SeqsUpTo(OutputChars, MaxText),
                          trailer \in { << >> } \cup { TagLine(code) : code \in ExitCodes } }

TagInit ==
    /\ MainStart(Configs(0, 0), {{}})
    /\ command_and_args = << >>
    /\ command_str = << >>
    /\ stdout_str \in CapturedTexts
    /\ parsed = NoParse
    /\ text_pc = "called"

TagNext ==
    ParseStdout

TagSpec ==
    TagInit /\ [][TagNext]_vars

(***************************************************************************)
(* The dependency graph the host's answers define, and its closure,        *)
(* computed without a queue.                                               *)
(***************************************************************************)
\* The apps whose `scoop depends` answers a well-formed table.
Resolvable ==
    { a \in Apps : manifest[a].kind = "rows" }

\* The apps whose `scoop depends` is known to fail.
Failing ==
    { a \in Apps : manifest[a].kind \in {"nonzero", "notfound", "badline"} }

RECURSIVE ReachableFrom(_)
ReachableFrom(S) ==
    LET more == S \cup UNION { manifest[a].deps : a \in S \cap Resolvable }
    IN  IF more = S THEN S ELSE ReachableFrom(more)

\* Every app reachable from the configured roots along answered
\* dependencies.
Reachable ==
    ReachableFrom(Range(config.scoop_apps))

\* get_required_things has returned.
Returned ==
    pc # "resolve"

MutatingOps ==
    {"uninstall", "bucket rm", "bucket add", "install"}

(***************************************************************************)
(* C1  resolve terminates on every dependency graph, cycles and failing    *)
(* queries included: the work queue becomes empty and RequiredThings is    *)
(* returned.                                                               *)
(***************************************************************************)
C1_ResolveTerminates ==
    <>(Returned /\ to_resolve = <<>>)

\* resolve has returned on a graph with a self-cycle, a mutual cycle and a
\* failing query.
C1_Witness ==
    /\ Returned
    /\ \E a \in DOMAIN resolved : a \in resolved[a]
    /\ \E a, b \in DOMAIN resolved : a # b /\ b \in resolved[a] /\ a \in resolved[b]
    /\ skipped # {}

(***************************************************************************)
(* C2  When resolve returns the mapping is closed: every dependency D of a *)
(* key is a key, unless the query for D failed; then D is no key, and the  *)
(* step that skipped D enqueued nothing and recorded nothing.              *)
(***************************************************************************)
Closed ==
    \A p \in DOMAIN required.scoop_apps :
        \A d \in required.scoop_apps[p] :
            \/ d \in DOMAIN required.scoop_apps
            \/ d \in skipped /\ d \notin DOMAIN required.scoop_apps

SkipEnqueuesNothing ==
    (pc = "resolve" /\ skipped' # skipped) =>
        /\ to_resolve' = Tail(to_resolve)
        /\ resolved' = resolved

C2_ClosedMapping ==
    [](Returned => Closed) /\ [][SkipEnqueuesNothing]_vars

\* resolve has returned a key one of whose dependencies failed and another
\* was resolved.
C2_Witness ==
    /\ Returned
    /\ \E p \in DOMAIN required.scoop_apps :
          /\ \E d \in required.scoop_apps[p] :
                d \in skipped /\ d \notin DOMAIN required.scoop_apps
          /\ \E d \in required.scoop_apps[p] :
                d # p /\ d \in DOMAIN required.scoop_apps

(***************************************************************************)
(* C3  Partial-failure containment: when the query fails for exactly one   *)
(* app X and answers for every other, resolve returns an entry for every   *)
(* other app reachable from the roots, and X is no key.                    *)
(***************************************************************************)
C3_PartialFailure ==
    (Returned /\ chan = "Idle" /\ Cardinality(Failing) = 1) =>
        /\ DOMAIN required.scoop_apps = Reachable \ Failing
        /\ Failing \cap DOMAIN required.scoop_apps = {}
        /\ Failing \subseteq skipped

\* resolve has returned with one failing app that was queued before an app
\* that resolved.
C3_Witness ==
    /\ Returned
    /\ chan = "Idle"
    /\ Cardinality(Failing) = 1
    /\ Cardinality(DOMAIN required.scoop_apps) = 2
    /\ Len(stdin_log) >= 3
    /\ stdin_log[1].targets \subseteq Failing

(***************************************************************************)
(* C4  Order independence: with every app answered the same way each time, *)
(* the mapping resolve returns is a function of the set of roots and of    *)
(* the answers alone, whatever the order of the roots and of the queue.    *)
(***************************************************************************)
C4_OrderIndependent ==
    (Returned /\ chan = "Idle") =>
        required.scoop_apps = [a \in Reachable \ Failing |-> manifest[a].deps]

\* resolve has returned three keys from two roots given out of the order in
\* which they were resolved last.
C4_Witness ==
    /\ Returned
    /\ chan = "Idle"
    /\ Cardinality(DOMAIN required.scoop_apps) = 3
    /\ Len(config.scoop_apps) = 2
    /\ \E a \in Apps : Cardinality(manifest[a].deps) = 2

(***************************************************************************)
(* C5  ProtocolDesyncError is fatal: once an exec call has failed for want *)
(* of the EXIT_CODE tag, nothing but the exit directive is written to the  *)
(* host's stdin, and the run returns an error.                             *)
(***************************************************************************)
NoCommandAfterDesync ==
    chan = "Desynced" =>
        \/ stdin_log' = stdin_log
        \/ stdin_log' = Append(stdin_log, Command("exit", {}))

C5_DesyncIsFatal ==
    /\ [][NoCommandAfterDesync]_vars
    /\ []((chan = "Desynced" /\ pc = "return") =>
             exit_kind \notin {"up_to_date", "cancelled", "completed"})

(***************************************************************************)
(* C6  Idempotence: with the plan fully applied to the installed state,    *)
(* diffing again against the same RequiredThings gives two empty plans.    *)
(***************************************************************************)
C6_Idempotent ==
    pc = "applied" =>
        /\ is_empty(compute_things_to_uninstall(installed, required))
        /\ is_empty(compute_things_to_install(installed, required))

\* A plan that uninstalled and installed both a bucket and an app was
\* applied.
C6_Witness ==
    /\ pc = "applied"
    /\ to_uninstall.scoop_buckets # {} /\ to_uninstall.scoop_apps # {}
    /\ to_install.scoop_buckets # {} /\ to_install.scoop_apps # {}

(***************************************************************************)
(* C7  diff_uninstall is exactly: the installed buckets whose (name,       *)
(* source) is that of no required bucket, and the installed apps that are  *)
(* no key of the required mapping; so an installed app that is only in a   *)
(* dependency set, its own resolution having failed, is uninstalled.       *)
(***************************************************************************)
JustDiffed ==
    pc \in {"confirm", "return"}

SameBucket(b, c) ==
    b.name = c.name /\ b.source = c.source

C7_UninstallExact ==
    JustDiffed =>
        /\ \A b \in Buckets :
              b \in to_uninstall.scoop_buckets <=>
                  /\ \E i \in DOMAIN installed.scoop_buckets :
                        SameBucket(installed.scoop_buckets[i], b)
                  /\ \A j \in DOMAIN required.scoop_buckets :
                        ~SameBucket(required.scoop_buckets[j], b)
        /\ \A a \in Apps :
              a \in to_uninstall.scoop_apps <=>
                  a \in installed.scoop_apps /\ a \notin DOMAIN required.scoop_apps
        /\ \A a \in installed.scoop_apps :
              ( /\ a \notin DOMAIN required.scoop_apps
                /\ \E p \in DOMAIN required.scoop_apps : a \in required.scoop_apps[p] )
                  => a \in to_uninstall.scoop_apps

\* The plan uninstalls a bucket whose name a required bucket has with
\* another source, and an installed app that is a dependency and no key.
C7_Witness ==
    /\ pc = "confirm"
    /\ \E b \in to_uninstall.scoop_buckets :
          \E j \in DOMAIN required.scoop_buckets :
              required.scoop_buckets[j].name = b.name
    /\ \E a \in to_uninstall.scoop_apps :
          \E p \in DOMAIN required.scoop_apps : a \in required.scoop_apps[p]

(***************************************************************************)
(* C8  diff_install is exactly: the required buckets whose (name, source)  *)
(* is that of no installed bucket, and the keys of the required mapping    *)
(* that are not installed; with resolve, every resolved app reachable from *)
(* a root and not installed is in the install plan.                        *)
(***************************************************************************)
Planned ==
    pc \in {"confirm", "uninstall", "uninstall_buckets", "install",
            "install_buckets", "install_apps"}

C8_InstallExact ==
    Planned =>
        /\ \A b \in Buckets :
              b \in to_install.scoop_buckets <=>
                  /\ \E j \in DOMAIN required.scoop_buckets :
                        SameBucket(required.scoop_buckets[j], b)
                  /\ \A i \in DOMAIN installed.scoop_buckets :
                        ~SameBucket(installed.scoop_buckets[i], b)
        /\ \A a \in Apps :
              a \in to_install.scoop_apps <=>
                  a \in DOMAIN required.scoop_apps /\ a \notin installed.scoop_apps
        /\ chan = "Idle" =>
              \A a \in Reachable \ Failing :
                  a \notin installed.scoop_apps => a \in to_install.scoop_apps

\* Root main/git depends on main/curl, nothing is installed: both are in the
\* install plan.
C8_Witness ==
    /\ pc = "confirm"
    /\ chan = "Idle"
    /\ config.scoop_apps = << ScoopApp("main", "git") >>
    /\ manifest[ScoopApp("main", "git")].deps = { ScoopApp("main", "curl") }
    /\ manifest[ScoopApp("main", "curl")].kind = "rows"
    /\ installed.scoop_apps = {}
    /\ to_install.scoop_apps = { ScoopApp("main", "git"), ScoopApp("main", "curl") }
    /\ to_install.scoop_buckets # {}

(***************************************************************************)
(* C9  Already satisfied: when the configured buckets are the installed    *)
(* buckets and the keys of the resolved mapping are the installed apps,    *)
(* both plans are empty and the run ends "up to date": no confirmation, no *)
(* bucket add/rm, install or uninstall.                                    *)
(***************************************************************************)
\* The export succeeded and both plans were computed.
Diffed ==
    \/ Planned
    \/ pc \in {"return", "waiting", "dropped"} /\ exit_kind # "err_export"

NothingDone ==
    /\ is_empty(to_uninstall)
    /\ is_empty(to_install)
    /\ pc \in {"return", "waiting", "dropped"}
    /\ exit_kind = "up_to_date"
    /\ \A i \in DOMAIN stdin_log : stdin_log[i].op \notin MutatingOps

C9_AlreadySatisfied ==
    ( /\ Diffed
      /\ Range(config.scoop_buckets) = Range(installed.scoop_buckets)
      /\ DOMAIN required.scoop_apps = installed.scoop_apps )
        => NothingDone

\* The run ended up to date with a bucket and two apps installed, one of
\* them a dependency of the root.
C9_Witness ==
    /\ pc = "dropped"
    /\ exit_kind = "up_to_date"
    /\ installed.scoop_buckets # <<>>
    /\ Cardinality(installed.scoop_apps) = 2
    /\ Len(config.scoop_apps) = 1

\* The claim as written: the configured buckets and root apps are the
\* installed ones.
C9_DesiredEqualsInstalled ==
    ( /\ Diffed
      /\ Range(config.scoop_buckets) = Range(installed.scoop_buckets)
      /\ Range(config.scoop_apps) = installed.scoop_apps )
        => NothingDone

(***************************************************************************)
(* C10  Concurrent draining is deadlock-free: while no command has printed *)
(* a line that is the END_MARKER, the host is never blocked on a full pipe *)
(* that no reader of the call reads or will read, some thread can always   *)
(* step, exec returns only with both readers joined, and every call that   *)
(* was written returns.                                                    *)
(***************************************************************************)
InFlight ==
    exec_pc # "idle"

\* The host's next write is to a full pipe.
HostBlockedOn(s) ==
    /\ host_alive
    /\ host_script # <<>>
    /\ Head(host_script).stream = s
    /\ Len(pipes[s]) >= PipeCap

\* The reader of the stream runs, or the call is yet to spawn it.
WillBeRead(s) ==
    \/ reader[s] = "running"
    \/ exec_pc = "spawn_out"
    \/ exec_pc = "spawn_err" /\ s = "err"

NoUnreadBlock ==
    \A s \in Streams : HostBlockedOn(s) => WillBeRead(s)

NeverStuck ==
    InFlight => ENABLED (HostWrite \/ Drain)

JoinedBeforeReturn ==
    exec_pc \in {"parse", "idle"} => \A s \in Streams : reader[s] = "none"

C10_DrainsWhenClean ==
    /\ [](clean => (NoUnreadBlock /\ NeverStuck))
    /\ []JoinedBeforeReturn
    /\ ((InFlight /\ clean) ~> ~InFlight)

\* A call whose command printed more lines than a pipe holds on each stream
\* has returned them.
C10_Witness ==
    /\ exec_pc = "idle"
    /\ clean
    /\ exec_result.ok
    /\ Len(exec_result.stdout) > PipeCap
    /\ Len(exec_result.stderr) > PipeCap

\* The claim as written: whatever the lines of the command are.
C10_Drains ==
    /\ [](NoUnreadBlock /\ NeverStuck)
    /\ []JoinedBeforeReturn
    /\ (InFlight ~> ~InFlight)

(***************************************************************************)
(* C11.  Exit-code isolation: when the text of the tag is in what the      *)
(* command printed to stdout and the line of the tag follows it, exec      *)
(* reports the number after the last occurrence, the exit code of the      *)
(* command, and the stdout it returns is what precedes that last           *)
(* occurrence (trailing whitespace trimmed): every earlier occurrence of   *)
(* the tag is still in it.                                                 *)
(***************************************************************************)
Occurrences(text, pat) ==
    Cardinality({ i \in DOMAIN text : text[i] = pat })

C11_ExitCodeIsolation ==
    \A output \in SeqsUpTo(OutputChars, MaxText), code \in ExitCodes :
        (/\ text_pc = "done"
         /\ stdout_str = output \o TagLine(code)
         /\ Occurrences(output, TAG) >= 1)
        => /\ parsed.ok
           /\ parsed.exit_code = code
           /\ parsed.stdout = trim_end(output)
           /\ Occurrences(parsed.stdout, TAG) = Occurrences(stdout_str, TAG) - 1

\* The text of the tag with a number after it is in the output of a command
\* that exits with another number.
C11_Witness ==
    /\ text_pc = "done"
    /\ stdout_str = << "x", TAG, "1", "\n" >> \o TagLine(0)
    /\ parsed.exit_code = 0
    /\ parsed.stdout = << "x", TAG, "1" >>

(***************************************************************************)
(* C12.  Command/response ordering: while no command has printed a line    *)
(* that is the marker, the commands reach the host in the order of the     *)
(* calls, the k-th call that returns Ok returns the stdout, the stderr and *)
(* the exit code of the k-th command and of no other, and when it returns  *)
(* nothing of the command is left in the pipes or yet to be written.       *)
(***************************************************************************)
\* The lines the host has yet to write and those in a pipe are in the order
\* of the calls.
InSubmissionOrder ==
    /\ \A i, j \in DOMAIN host_script :
          i < j => host_script[i].line.cmd <= host_script[j].line.cmd
    /\ \A s \in Streams : \A i \in DOMAIN pipes[s] :
          /\ \A j \in DOMAIN pipes[s] : i < j => pipes[s][i].cmd <= pipes[s][j].cmd
          /\ \A j \in DOMAIN host_script :
                host_script[j].stream = s => pipes[s][i].cmd <= host_script[j].line.cmd

ReturnedOk ==
    /\ exec_pc = "idle"
    /\ calls >= 1
    /\ exec_result.call = calls
    /\ exec_result.ok

PlanErrors ==
    {"err_uninstall_apps", "err_uninstall_buckets", "err_install_buckets",
     "err_install_apps"}

\* The commands of the plan in the log, by position.
Mutating ==
    { i \in DOMAIN stdin_log : stdin_log[i].op \in MutatingOps }

\* A command of the plan has failed: it is the last of them in the log, and
\* main has returned, or is returning, the Err of its step.
Aborted ==
    \A i \in failures \cap Mutating :
        /\ \A j \in Mutating : j <= i
        /\ pc \in {"return", "waiting", "dropped"}
        /\ exit_kind \in PlanErrors
        /\ error.step = exit_kind

Exits ==
    { i \in DOMAIN stdin_log : stdin_log[i].op = "exit" }

ShutdownBegun ==
    pc \in {"waiting", "dropped"}

ExitKinds ==
    {"up_to_date", "cancelled", "completed", "err_export", "err_confirm"}
        \cup PlanErrors

C14_ShutdownOnce ==
    /\ [](Cardinality(Exits) <= 1)
    /\ [](ShutdownBegun <=> Exits = {Len(stdin_log)})
    /\ []((pc = "return") => (exit_kind \in ExitKinds /\ Exits = {}))
    /\ [](exit_kind # "none" => pc \in {"return", "waiting", "dropped"})
    /\ <>ShutdownBegun

\* A run that failed at a step of its plan has shut its host down.
C14_Witness ==
    /\ pc = "dropped"
    /\ exit_kind = "err_uninstall_buckets"
    /\ Cardinality(Exits) = 1
    /\ ~host_alive

(***************************************************************************)
(* C15.  Shutdown always completes: after "exit" is written the wait for   *)
(* the host ends within a bounded time, the host being killed if it has    *)
(* not exited, so that the drop of the client returns in every case.       *)
(***************************************************************************)
C15_ShutdownCompletes ==
    <>(pc = "dropped")

(***************************************************************************)
(* C16.  A failed installed-state query is fatal: when the exec call of    *)
(* `scoop export` fails, or the command exits non-zero, or its JSON does   *)
(* not parse, main returns an Err at once: no plan is computed and no      *)
(* command of a plan is written to the host.                               *)
(***************************************************************************)
ExportFailed ==
    \E i \in failures : stdin_log[i].op = "export"

C16_ExportFailureIsFatal ==
    ExportFailed =>
        /\ pc \in {"return", "waiting", "dropped"}
        /\ exit_kind = "err_export"
        /\ installed = NoInstalled
        /\ to_uninstall = NoThings
        /\ to_install = NoThings
        /\ Mutating = {}

\* The export failed after a resolve that found something to install.
C16_Witness ==
    /\ ExportFailed
    /\ pc = "dropped"
    /\ DOMAIN required.scoop_apps # {}
    /\ required.scoop_buckets # << >>

(***************************************************************************)
(* C17.  Quoting round-trip: for every list of arguments, the command line *)
(* made by quoting each (single quotes round an argument with a double     *)
(* quote in it, double quotes round one with a space or a single quote,    *)
(* the others as they are) and joining them with spaces is read by the     *)
(* host as the same list of arguments.                                     *)
(***************************************************************************)
C17_QuotingRoundTrip ==
    text_pc = "quoted" => Arguments(command_str) = command_and_args

\* The arguments for which the round trip does hold: not empty, and not
\* with both quotes in them.
Quotable(s) ==
    /\ s # << >>
    /\ ~(contains(s, "'") /\ contains(s, "\""))

C17_QuotableRoundTrip ==
    (text_pc = "quoted" /\ \A i \in DOMAIN command_and_args : Quotable(command_and_args[i]))
        => Arguments(command_str) = command_and_args

(***************************************************************************)
(* C18.  Plan execution order: the commands of a plan are written in the   *)
(* order `uninstall`, `bucket rm`, `bucket add` (one per bucket),          *)
(* `install`; `install` is written only after a `bucket add` of every      *)
(* bucket of the plan has exited zero, and `bucket rm` only after the      *)
(* `uninstall` of the plan, if it has one, has exited zero.                *)
(***************************************************************************)
Rank(op) ==
    CASE op = "uninstall"  -> 1
      [] op = "bucket rm"  -> 2
      [] op = "bucket add" -> 3
      [] op = "install"    -> 4

\* The commands of the plan that are in the log are in the order of their
\* ranks, one of each but for `bucket add`.
InPlanOrder ==
    \A i, j \in Mutating :
        i < j => \/ Rank(stdin_log[i].op) < Rank(stdin_log[j].op)
                 \/ /\ stdin_log[i].op = "bucket add"
                    /\ stdin_log[j].op = "bucket add"
                    /\ stdin_log[i].targets # stdin_log[j].targets

Issued(op) ==
    { i \in Mutating : stdin_log[i].op = op }

C18_PlanOrder ==
    /\ InPlanOrder
    /\ Issued("install") # {} =>
          /\ \A b \in to_install.scoop_buckets :
                \E i \in Issued("bucket add") \ failures : stdin_log[i].targets = {b}
          /\ Issued("bucket add") \cap failures = {}
    /\ Issued("bucket rm") # {} =>
          /\ to_uninstall.scoop_apps # {} => Issued("uninstall") # {}
          /\ Issued("uninstall") \cap failures = {}
    /\ Issued("bucket add") # {} =>
          (Issued("uninstall") \cup Issued("bucket rm")) \cap failures = {}

\* All four kinds of command were written in one run.
C18_Witness ==
    /\ pc = "dropped"
    /\ exit_kind = "completed"
    /\ \A op \in MutatingOps : Issued(op) # {}
    /\ Cardinality(Issued("bucket add")) = 2

(***************************************************************************)
(* C19.  Every command of a plan names a target: no `bucket rm`,           *)
(* `uninstall` or `install` is written to the host with an empty list of   *)
(* buckets or apps.                                                        *)
(***************************************************************************)
C19_NamesATarget ==
    \A i \in Mutating : stdin_log[i].targets # {}

(***************************************************************************)
(* C20.  Soundness of the closure: at every step of resolve and when it    *)
(* returns, every key of the resolved map is a root of the config or is in *)
(* the dependencies recorded for another key; the value of a key is the    *)
(* set its `scoop depends` query returned, recorded when the key is        *)
(* inserted and never changed; and no query is made for an app that is     *)
(* already a key.                                                          *)
(***************************************************************************)
KeysAccountedFor ==
    \A k \in DOMAIN resolved :
        \/ k \in Range(config.scoop_apps)
        \/ \E j \in DOMAIN resolved \ {k} : k \in resolved[j]

\* While every query has been answered, a key's value is what the host
\* answers for it.
ValuesAsAnswered ==
    chan = "Idle" =>
        \A k \in DOMAIN resolved :
            /\ manifest[k] # Unknown
            /\ get_dependencies_of(manifest[k]).ok
            /\ resolved[k] = get_dependencies_of(manifest[k]).deps

\* A step keeps the keys and their values, adds at most the app it has just
\* queried, and queries no app that is a key.
QueriesOnlyNewKeys ==
    /\ \A k \in DOMAIN resolved : k \in DOMAIN resolved' /\ resolved'[k] = resolved[k]
    /\ stdin_log' # stdin_log =>
          LET command == stdin_log'[Len(stdin_log')]
          IN  /\ command.op = "depends"
              /\ command.targets \cap DOMAIN resolved = {}
              /\ DOMAIN resolved' \ DOMAIN resolved \subseteq command.targets
    /\ stdin_log' = stdin_log => DOMAIN resolved' = DOMAIN resolved

C20_ClosureSound ==
    /\ [](KeysAccountedFor /\ ValuesAsAnswered)
    /\ [](Returned => required.scoop_apps = resolved)
    /\ [][QueriesOnlyNewKeys]_vars

\* resolve has returned a key that is no root, reached through a cycle.
C20_Witness ==
    /\ Returned
    /\ chan = "Idle"
    /\ \E k \in DOMAIN resolved :
          /\ k \notin Range(config.scoop_apps)
          /\ \E j \in DOMAIN resolved \ {k} : k \in resolved[j] /\ j \in resolved[k]

(***************************************************************************)
(* C21.  The two plans computed from one InstalledThings and one           *)
(* RequiredThings are disjoint: no app (bucket_name, name) and no bucket   *)
(* (name, source) is both to install and to uninstall; everything to       *)
(* uninstall is installed, and nothing to install is.                      *)
(***************************************************************************)
C21_PlansDisjoint ==
    JustDiffed =>
        /\ to_install.scoop_apps \cap to_uninstall.scoop_apps = {}
        /\ to_install.scoop_buckets \cap to_uninstall.scoop_buckets = {}
        /\ to_uninstall.scoop_apps \subseteq installed.scoop_apps
        /\ to_uninstall.scoop_buckets \subseteq Range(installed.scoop_buckets)
        /\ to_install.scoop_apps \cap installed.scoop_apps = {}
        /\ to_install.scoop_buckets \cap Range(installed.scoop_buckets) = {}

\* Both plans have an app and a bucket, the buckets of one name and of
\* two sources, while an installed app is kept.
C21_Witness ==
    /\ pc = "confirm"
    /\ to_install.scoop_apps # {}
    /\ to_uninstall.scoop_apps # {}
    /\ \E b \in to_install.scoop_buckets, c \in to_uninstall.scoop_buckets :
          b.name = c.name /\ b.source # c.source
    /\ installed.scoop_apps \ to_uninstall.scoop_apps # {}

====
